---- MODULE Spec2Model ----
(***************************************************************************)
(* Mobile Inspection App (src/src/App.tsx): the passcode gate, the         *)
(* Projects and Inspections collections kept in React state and mirrored   *)
(* to localStorage, the photo blobs kept in IndexedDB, and the asynchronous *)
(* handlers that run between them.                                         *)
(*                                                                         *)
(* A handler that contains an await is split at the await: the part up to  *)
(* the await is one action, each resumption is another. What a handler     *)
(* read from React state before its await (the closure of the render it    *)
(* was created in) is kept in its task record, as in the code.             *)
(***************************************************************************)
EXTENDS Integers, Sequences, FiniteSets, TLC

(***************************************************************************)
(* Bounds of the model.                                                    *)
(***************************************************************************)
\* Date.now() readings are 0..MaxClock.
MaxClock == 1
\* Data operations (saveProject and saveInspectionEntry calls that pass their
\* validation) in one run of the whole application.
MaxOps == 2
\* Entries submitted in one run of the timeline specification.
MaxInserts == 3
\* Photo files attached to one entry.
MaxPhotos == 2
\* Passcode handlers awaiting their digest at the same time.
MaxAuthTasks == 2
\* Blob reads started by photoURLFromKey in one run.
MaxResolves == 3

(***************************************************************************)
(* Input domains.                                                          *)
(***************************************************************************)
\* Text typed into a Project ID field, as a sequence of pieces of text (a
\* space or a word): ordinary ids, and ids that are the names of members
\* every JavaScript object inherits from Object.prototype.
PlainIds == {<<>>, <<" ">>, <<"p">>, <<" ", "q", " ">>}
ProtoKey == <<"__proto__">>
InheritedNames == {<<"constructor">>, ProtoKey}
RawIds == PlainIds \cup InheritedNames
\* Text typed into the address and scope fields and the notes area.
RawTexts == {<<>>, <<" ", "a">>}
RawNotes == {<<" ", "n", " ">>}
\* <input type="date"> values: 0 is the empty value, d is 2024-03-d.
EmptyDate == 0
Dates == {30, 31}
\* <input type="time"> values in minutes after midnight: -1 is the empty value.
EmptyTime == 0 - 1
Times == {90, 135}
\* The files of a submission: none, or MaxPhotos different files.
File(k) == <<"file", k>>
PhotoLists == {<<>>, [k \in 1..MaxPhotos |-> File(k)]}
\* Every selection of up to MaxPhotos different files, in every order.
AllPhotoLists ==
  {list \in UNION {[1..n -> {File(k) : k \in 1..MaxPhotos}] : n \in 0..MaxPhotos} :
     \A i, j \in DOMAIN list : i # j => list[i] # list[j]}
\* Passcodes typed into the passcode fields.
Passcodes == {"", "abc", "abcd", "wxyz"}
\* Time zones of the device: one without and one with a daylight-saving gap.
TimeZones == {"UTC", "Europe/London"}

NoHash == "null"
Null == <<>>

(***************************************************************************)
(* Pure functions of the source.                                           *)
(***************************************************************************)
IsSpace(c) == c = " "

RECURSIVE TrimStart(_)
TrimStart(s) ==
  IF s # <<>> /\ IsSpace(Head(s)) THEN TrimStart(Tail(s)) ELSE s

RECURSIVE TrimEnd(_)
TrimEnd(s) ==
  IF s # <<>> /\ IsSpace(s[Len(s)]) THEN TrimEnd(SubSeq(s, 1, Len(s) - 1)) ELSE s

\* String.prototype.trim
Trim(s) == TrimEnd(TrimStart(s))

\* sha256Base64: the base64 text of the SHA-256 digest of the UTF-8 input.
sha256Base64(input) ==
  CASE input = "" -> "47DEQpj8HBSa+/TImW+5JCeuQeRkm5NMpJWZG3hSuFU="
    [] input = "abc" -> "ungWv48Bz+pBQUDeXa4iI7ADYaOWF3qctBD/YfIAFa0="
    [] input = "abcd" -> "iNQmb9TmM40TuEX88olXnSCciXgjuSF9o+Fhk28DFYk="
    [] input = "wxyz" -> "F/SI92jbj756QIqUaSA8YeA7X+QyFLlaAOfAxS0v2TM="

\* The day on which Europe/London skips the local times 01:00..01:59
\* (2024-03-31), and the end of the skipped hour in minutes after midnight.
GapDay == 31
GapEnd == 120

\* new Date(`${date}T${time}:00`).getTime(), in minutes: a date-time text
\* without an offset is local time; a skipped local time is read with the
\* offset in force before the transition.
DateGetTime(zone, date, time) ==
  IF zone = "Europe/London" /\ (date > GapDay \/ (date = GapDay /\ time >= GapEnd))
  THEN date * 1440 + time - 60
  ELSE date * 1440 + time

\* The comparator of the sort in saveInspectionEntry: tb - ta.
Compare(zone, a, b) ==
  DateGetTime(zone, b.date, b.time) - DateGetTime(zone, a.date, a.time)

\* A variant that is not stable: x goes in front of its equals.
RECURSIVE InsertSortedUnstable(_, _, _)
InsertSortedUnstable(zone, sorted, x) ==
  IF sorted = <<>> THEN <<x>>
  ELSE IF Compare(zone, Head(sorted), x) < 0
       THEN <<Head(sorted)>> \o InsertSortedUnstable(zone, Tail(sorted), x)
       ELSE <<x>> \o sorted

\* Array.prototype.sort is stable: x goes behind every element that the
\* comparator does not put after it.
RECURSIVE InsertSorted(_, _, _)
InsertSorted(zone, sorted, x) ==
  IF sorted = <<>> THEN <<x>>
  ELSE IF Compare(zone, Head(sorted), x) <= 0
       THEN <<Head(sorted)>> \o InsertSorted(zone, Tail(sorted), x)
       ELSE <<x>> \o sorted

RECURSIVE SortEntries(_, _)
SortEntries(zone, list) ==
  IF list = <<>> THEN <<>>
  ELSE InsertSorted(zone, SortEntries(zone, SubSeq(list, 1, Len(list) - 1)),
                    list[Len(list)])

\* `${activeProjectId}/inspections/${entryId}/photo-${i}`
PhotoKey(projectId, entryId, i) == <<projectId, "inspections", entryId, "photo", i>>

\* next[id] = value on a spread copy of a Record. Assigning an object to
\* the property __proto__ calls the setter inherited from Object.prototype:
\* it replaces the prototype of the copy and creates no own property.
Put(map, id, value) ==
  IF id = ProtoKey THEN map
  ELSE [k \in DOMAIN map \cup {id} |-> IF k = id THEN value ELSE map[k]]

\* map[id] is not an own property of map but a member inherited from
\* Object.prototype (the function Object for "constructor", Object.prototype
\* itself for "__proto__"): a value that is truthy and is not an array.
Inherits(map, id) == id \notin DOMAIN map /\ id \in InheritedNames

\* map[id] || [], for an id that inherits nothing.
ListOf(map, id) == IF id \in DOMAIN map THEN map[id] ELSE <<>>

\* list.filter((e) => e.date === filterDate)
RECURSIVE Filter(_, _)
Filter(list, d) ==
  IF list = <<>> THEN <<>>
  ELSE IF Head(list).date = d THEN <<Head(list)>> \o Filter(Tail(list), d)
       ELSE Filter(Tail(list), d)

\* InspectionList throws a TypeError instead of rendering a list: what it
\* finds under the project id has no filter and no map.
InspectionListThrows(map, projectId) == Inherits(map, projectId)

\* The list InspectionList renders for a project and an optional filter
\* date, when it does not throw.
InspectionList(map, projectId, fDate) ==
  IF fDate # EmptyDate THEN Filter(ListOf(map, projectId), fDate)
  ELSE ListOf(map, projectId)

(***************************************************************************)
(* localStorage documents.                                                 *)
(***************************************************************************)
\* What localStorage.getItem returns: null when the item is absent, a text
\* that JSON.parse rejects, the text "null", or the text of a JSON object,
\* given by its members (a set of <<property name, value>>).
NoItem == [json |-> "absent", members |-> {}]
Unparsable == [json |-> "unparsable", members |-> {}]
NullText == [json |-> "null", members |-> {}]
ObjectText(members) == [json |-> "object", members |-> members]

\* The value null, where a mapping is expected.
JsNull == [k \in {<<"null">>} |-> <<>>]
IsMapping(value) == value # JsNull

\* The value of the member called name in a sequence of <<name, value>>.
Member(members, name) ==
  members[CHOOSE i \in DOMAIN members : members[i][1] = name][2]

\* JSON.stringify of a ProjectMeta: its own properties in creation order.
MetaText(meta) ==
  << <<"id", meta.id>>, <<"address", meta.address>>, <<"scope", meta.scope>>,
     <<"createdAt", meta.createdAt>>, <<"updatedAt", meta.updatedAt>> >>

\* JSON.parse of the text of a ProjectMeta.
MetaOfText(text) ==
  [id |-> Member(text, "id"), address |-> Member(text, "address"),
   scope |-> Member(text, "scope"), createdAt |-> Member(text, "createdAt"),
   updatedAt |-> Member(text, "updatedAt")]

\* JSON.stringify of an InspectionEntry (with its history fields).
EntryText(entry) ==
  << <<"id", entry.id>>, <<"date", entry.date>>, <<"time", entry.time>>,
     <<"notes", entry.notes>>, <<"photoKeys", entry.photoKeys>>,
     <<"createdAt", entry.createdAt>>, <<"updatedAt", entry.updatedAt>>,
     <<"seq", entry.seq>>, <<"files", entry.files>> >>

EntryOfText(text) ==
  [id |-> Member(text, "id"), date |-> Member(text, "date"),
   time |-> Member(text, "time"), notes |-> Member(text, "notes"),
   photoKeys |-> Member(text, "photoKeys"), createdAt |-> Member(text, "createdAt"),
   updatedAt |-> Member(text, "updatedAt"), seq |-> Member(text, "seq"),
   files |-> Member(text, "files")]

\* The value member name has in a set of <<name, value>>.
ValueOf(members, name) == (CHOOSE m \in members : m[1] = name)[2]

\* saveProjects: JSON.stringify(projects).
saveProjects(value) ==
  IF value = JsNull THEN NullText
  ELSE ObjectText({<<id, MetaText(value[id])>> : id \in DOMAIN value})

\* loadProjects: raw ? JSON.parse(raw) : {}, and {} when JSON.parse throws.
loadProjects(raw) ==
  CASE raw.json = "absent" -> <<>>
    [] raw.json = "unparsable" -> <<>>
    [] raw.json = "null" -> JsNull
    [] raw.json = "object" ->
         [id \in {m[1] : m \in raw.members} |-> MetaOfText(ValueOf(raw.members, id))]

\* saveInspections: JSON.stringify(map).
saveInspections(value) ==
  IF value = JsNull THEN NullText
  ELSE ObjectText({<<id, [k \in DOMAIN value[id] |-> EntryText(value[id][k])]>> :
                     id \in DOMAIN value})

\* loadInspections: raw ? JSON.parse(raw) : {}, and {} when JSON.parse throws.
loadInspections(raw) ==
  CASE raw.json = "absent" -> <<>>
    [] raw.json = "unparsable" -> <<>>
    [] raw.json = "null" -> JsNull
    [] raw.json = "object" ->
         [id \in {m[1] : m \in raw.members} |->
            [k \in DOMAIN ValueOf(raw.members, id) |->
               EntryOfText(ValueOf(raw.members, id)[k])]]

(***************************************************************************)
(* State.                                                                  *)
(***************************************************************************)
VARIABLES
  tz,                   \* the device's time zone
  now,                  \* the reading Date.now() returns
  storedHash,           \* localStorage[LS_PASSCODE_HASH], NoHash when absent
  hasPasscode,          \* useState hasPasscode
  authed,               \* useState authed
  view,                 \* useState view
  authTasks,            \* handleSetPasscode / handleSignIn calls awaiting sha256Base64
  projects,             \* useState projects
  lsProjects,           \* localStorage[LS_PROJECTS_KEY]
  inspections,          \* useState inspections
  lsInspections,        \* localStorage[LS_INSPECTIONS_KEY]
  blobs,                \* the IndexedDB object store "photos": key -> file
  activeProjectId,      \* useState activeProjectId, Null when null
  filterDate,           \* useState filterDate, EmptyDate when null
  dataDialogOpen,       \* useState dataDialogOpen
  inspectionDialogOpen, \* useState inspectionDialogOpen
  reportDialogOpen,     \* useState reportDialogOpen
  saves,                \* saveInspectionEntry calls awaiting idbSet
  calls,                \* history: the fate of every saveInspectionEntry call
  ops,                  \* history: data operations started so far
  photoURLCache,        \* useState photoURLCache: key -> object URL
  resolves,             \* photoURLFromKey calls awaiting idbGet
  urls,                 \* the number of object URLs created by URL.createObjectURL
  handed,               \* history: key -> the first object URL photoURLFromKey returned for it
  images,               \* the mounted AsyncImage instances: instance -> [idKey, url]
  mounts,               \* the number of AsyncImage instances mounted so far
  made,                 \* history: the key each object URL was created for, in order of creation
  revoked,              \* the object URLs released by URL.revokeObjectURL
  last                  \* history: what the latest step reported (a rejection, a passcode outcome)

vars == <<tz, now, storedHash, hasPasscode, authed, view, authTasks, projects,
          lsProjects, inspections, lsInspections, blobs, activeProjectId,
          filterDate, dataDialogOpen, inspectionDialogOpen, reportDialogOpen,
          saves, calls, ops, photoURLCache, resolves, urls, handed, images, mounts,
          made, revoked, last>>

callVars == <<photoURLCache, resolves, urls, handed, made>>
resolverVars == <<callVars, images, mounts, revoked>>

authVars == <<storedHash, hasPasscode, authed, authTasks>>
navVars == <<view, activeProjectId, filterDate>>
dialogVars == <<dataDialogOpen, inspectionDialogOpen, reportDialogOpen>>
projectVars == <<projects, lsProjects>>
inspectionVars == <<inspections, lsInspections, blobs, saves, calls>>

\* op: the handler; result: "rejected", "pending" (it awaits), "ok" or "failed";
\* arg: what it was called with.
Outcome(op, result, arg) == [op |-> op, result |-> result, arg |-> arg]
NoOutcome == Outcome("none", "ok", <<>>)

\* The state after the first render and its effects, on a device with empty
\* storage: loadProjects() and loadInspections() return {} and the persist
\* effects store them, no passcode hash is stored, the view is "auth".
Init ==
  /\ tz \in TimeZones
  /\ now = 0
  /\ storedHash = NoHash
  /\ hasPasscode = FALSE
  /\ authed = FALSE
  /\ view = "auth"
  /\ authTasks = <<>>
  /\ projects = <<>>
  /\ lsProjects = saveProjects(projects)
  /\ inspections = <<>>
  /\ lsInspections = saveInspections(inspections)
  /\ blobs = <<>>
  /\ activeProjectId = Null
  /\ filterDate = EmptyDate
  /\ dataDialogOpen = FALSE
  /\ inspectionDialogOpen = FALSE
  /\ reportDialogOpen = FALSE
  /\ saves = <<>>
  /\ calls = <<>>
  /\ ops = 0
  /\ photoURLCache = <<>>
  /\ resolves = <<>>
  /\ urls = 0
  /\ handed = <<>>
  /\ images = <<>>
  /\ mounts = 0
  /\ made = <<>>
  /\ revoked = {}
  /\ last = NoOutcome

\* if (!authed && view === "auth") return <AuthView />;
AuthShown == ~authed /\ view = "auth"

\* Rendering throws a TypeError, and React unmounts the application for the
\* rest of the process: HomeView calls Object.keys(projects), ProjectHeader
\* reads projects[id], and InspectionList reads inspections[projectId] and
\* calls filter and map on what it finds.
RenderThrows ==
  \/ view = "home" /\ ~IsMapping(projects)
  \/ view = "inspectionProject" /\ (~IsMapping(projects) \/ ~IsMapping(inspections))
  \* list.map is not a function
  \/ view = "inspectionProject" /\ Inherits(inspections, activeProjectId)

MainShown == ~AuthShown /\ ~RenderThrows

\* A Dialog is modal: while one is open, the header, the home view and the
\* inspection form behind it take no clicks.
DialogOpen == dataDialogOpen \/ inspectionDialogOpen \/ reportDialogOpen
PageShown == MainShown /\ ~DialogOpen

\* The handle AsyncImage shows before photoURLFromKey has returned.
NoHandle == <<>>

\* A variant whose cleanup sees the url the instance shows.
EffectUrlCurrent(image) == image.url

\* The url the cleanup of an AsyncImage's effect closes over: the one of the
\* render the effect ran after. The effect depends on [idKey], and idKey is
\* also the React key of the instance, so it runs once, after the first
\* render, where url is the initial "".
EffectUrl(image) == NoHandle

\* The cleanup of the effect: if (url) URL.revokeObjectURL(url).
Released(image) == IF EffectUrl(image) # NoHandle THEN {EffectUrl(image)} ELSE {}

\* App renders again after a setState of its own. InspectionList is declared
\* inside App, so it is a new component type on every render of App: every
\* AsyncImage is unmounted and its cleanup runs (the instances of the new
\* render are mounted by ResolveCall).
Rerender ==
  /\ images' = <<>>
  /\ revoked' = revoked \cup UNION {Released(images[n]) : n \in DOMAIN images}
  /\ mounts' = mounts

RemoveAt(seq, i) == SubSeq(seq, 1, i - 1) \o SubSeq(seq, i + 1, Len(seq))

\* The system clock moves on.
Tick ==
  /\ now < MaxClock
  /\ now' = now + 1
  /\ last' = NoOutcome
  /\ UNCHANGED <<tz, resolverVars, authVars, navVars, dialogVars, projectVars, inspectionVars, ops>>

(***************************************************************************)
(* Auth.                                                                   *)
(***************************************************************************)
\* A variant whose length test is off by one.
SetPasscodeAcceptsThree(input, confirm) ==
  ~(input = "" \/ Len(input) < 3) /\ input = confirm

\* handleSetPasscode up to its await: the two validations.
SetPasscodeAccepts(input, confirm) == ~(input = "" \/ Len(input) < 4) /\ input = confirm

HandleSetPasscode(input, confirm) ==
  /\ AuthShown /\ ~hasPasscode
  /\ IF SetPasscodeAccepts(input, confirm)
     THEN /\ authTasks' = Append(authTasks, [kind |-> "set", input |-> input, stored |-> NoHash,
                                             old |-> FALSE])
          /\ last' = Outcome("setPasscode", "pending", <<input, confirm>>)
     ELSE /\ authTasks' = authTasks
          /\ last' = Outcome("setPasscode", "rejected", <<input, confirm>>)
  /\ Rerender /\ UNCHANGED <<tz, callVars, now, storedHash, hasPasscode, authed, navVars, dialogVars,
                 projectVars, inspectionVars, ops>>

\* A variant that stores the hash and leaves the gate locked.
SetPasscodeDoneLocked(i) ==
  /\ authTasks[i].kind = "set"
  /\ storedHash' = sha256Base64(authTasks[i].input)
  /\ hasPasscode' = TRUE
  /\ authTasks' = RemoveAt(authTasks, i)
  /\ last' = Outcome("setPasscode", "ok", <<authTasks[i].input, authTasks[i].input>>)
  /\ Rerender /\ UNCHANGED <<tz, callVars, now, authed, view, activeProjectId, filterDate, dialogVars,
                 projectVars, inspectionVars, ops>>

\* handleSetPasscode after its await.
SetPasscodeDone(i) ==
  /\ authTasks[i].kind = "set"
  /\ storedHash' = sha256Base64(authTasks[i].input)
  \* state setters do nothing once the application is unmounted
  /\ IF RenderThrows THEN UNCHANGED <<hasPasscode, authed, view>>
     ELSE hasPasscode' = TRUE /\ authed' = TRUE /\ view' = "home"
  /\ authTasks' = RemoveAt(authTasks, i)
  /\ last' = Outcome("setPasscode", "ok", <<authTasks[i].input, authTasks[i].input>>)
  /\ Rerender /\ UNCHANGED <<tz, callVars, now, activeProjectId, filterDate, dialogVars, projectVars,
                 inspectionVars, ops>>

\* handleSignIn up to its await: the passcode typed and the hash read from
\* localStorage.
HandleSignIn(input) ==
  /\ AuthShown /\ hasPasscode
  /\ IF input = "" \/ storedHash = NoHash
     THEN /\ authTasks' = authTasks
          /\ last' = Outcome("signIn", "rejected", <<input, storedHash>>)
     ELSE /\ authTasks' = Append(authTasks, [kind |-> "signIn", input |-> input,
                                             stored |-> storedHash, old |-> FALSE])
          /\ last' = Outcome("signIn", "pending", <<input, storedHash>>)
  /\ Rerender /\ UNCHANGED <<tz, callVars, now, storedHash, hasPasscode, authed, navVars, dialogVars,
                 projectVars, inspectionVars, ops>>

\* A variant that lets every passcode through.
SignInMatchesAny(hash, stored) == TRUE

\* if (hash !== stored) return toast.error("Incorrect passcode");
SignInMatches(hash, stored) == hash = stored

\* handleSignIn after its await.
SignInDone(i) ==
  /\ authTasks[i].kind = "signIn"
  /\ authTasks' = RemoveAt(authTasks, i)
  /\ IF SignInMatches(sha256Base64(authTasks[i].input), authTasks[i].stored)
     THEN /\ IF RenderThrows THEN UNCHANGED <<authed, view>>
             ELSE authed' = TRUE /\ view' = "home"
          /\ last' = Outcome("signIn", "ok", <<authTasks[i].input, authTasks[i].stored>>)
     ELSE /\ UNCHANGED <<authed, view>>
          /\ last' = Outcome("signIn", "failed", <<authTasks[i].input, authTasks[i].stored>>)
  /\ Rerender /\ UNCHANGED <<tz, callVars, now, storedHash, hasPasscode, activeProjectId, filterDate,
                 dialogVars, projectVars, inspectionVars, ops>>

\* History: the passcode calls in flight at a sign-out began before it.
Outlived(tasks) == [i \in DOMAIN tasks |-> [tasks[i] EXCEPT !.old = TRUE]]

\* A variant that leaves the view as it is.
HandleSignOutKeepingView ==
  /\ PageShown /\ authed
  /\ authed' = FALSE
  /\ authTasks' = Outlived(authTasks)
  /\ last' = Outcome("signOut", "ok", <<>>)
  /\ Rerender /\ UNCHANGED <<tz, callVars, now, storedHash, hasPasscode, navVars,
                 dialogVars, projectVars, inspectionVars, ops>>

\* The sign-out button of the header is rendered when authed. The passcode
\* calls in flight stay in flight.
HandleSignOut ==
  /\ PageShown /\ authed
  /\ authed' = FALSE
  /\ view' = "auth"
  /\ authTasks' = Outlived(authTasks)
  /\ last' = Outcome("signOut", "ok", <<>>)
  /\ Rerender /\ UNCHANGED <<tz, callVars, now, storedHash, hasPasscode, activeProjectId,
                 filterDate, dialogVars, projectVars, inspectionVars, ops>>

(***************************************************************************)
(* Navigation and dialogs.                                                 *)
(***************************************************************************)
GoHome ==
  /\ PageShown /\ view # "home"
  /\ view' = "home"
  /\ activeProjectId' = Null
  /\ filterDate' = EmptyDate
  /\ last' = NoOutcome
  /\ Rerender /\ UNCHANGED <<tz, callVars, now, authVars, dialogVars, projectVars, inspectionVars, ops>>

\* The three big buttons of HomeView.
OpenDataPrompt ==
  /\ PageShown /\ view = "home"
  /\ view' = "data"
  /\ dataDialogOpen' = TRUE
  /\ last' = NoOutcome
  /\ Rerender /\ UNCHANGED <<tz, callVars, now, authVars, activeProjectId, filterDate, inspectionDialogOpen,
                 reportDialogOpen, projectVars, inspectionVars, ops>>

OpenInspectionPrompt ==
  /\ PageShown /\ view = "home"
  /\ view' = "inspection"
  /\ inspectionDialogOpen' = TRUE
  /\ last' = NoOutcome
  /\ Rerender /\ UNCHANGED <<tz, callVars, now, authVars, activeProjectId, filterDate, dataDialogOpen,
                 reportDialogOpen, projectVars, inspectionVars, ops>>

OpenReportPrompt ==
  /\ PageShown /\ view = "home"
  /\ view' = "report"
  /\ reportDialogOpen' = TRUE
  /\ last' = NoOutcome
  /\ Rerender /\ UNCHANGED <<tz, callVars, now, authVars, activeProjectId, filterDate, dataDialogOpen,
                 inspectionDialogOpen, projectVars, inspectionVars, ops>>

\* The Open button of a row of "Recent Projects".
OpenRecent(id) ==
  /\ PageShown /\ view = "home"
  /\ id \in DOMAIN projects
  /\ activeProjectId' = id
  /\ filterDate' = EmptyDate
  /\ view' = "inspectionProject"
  /\ last' = NoOutcome
  /\ Rerender /\ UNCHANGED <<tz, callVars, now, authVars, dialogVars, projectVars, inspectionVars, ops>>

\* onOpenChange(false) of a dialog.
CloseDialog(which) ==
  /\ MainShown
  /\ CASE which = "data" ->
            dataDialogOpen /\ dataDialogOpen' = FALSE
            /\ UNCHANGED <<inspectionDialogOpen, reportDialogOpen>>
       [] which = "inspection" ->
            inspectionDialogOpen /\ inspectionDialogOpen' = FALSE
            /\ UNCHANGED <<dataDialogOpen, reportDialogOpen>>
       [] which = "report" ->
            reportDialogOpen /\ reportDialogOpen' = FALSE
            /\ UNCHANGED <<dataDialogOpen, inspectionDialogOpen>>
  /\ last' = NoOutcome
  /\ Rerender /\ UNCHANGED <<tz, callVars, now, authVars, navVars, projectVars, inspectionVars, ops>>

ProceedInspection(rawId) ==
  /\ MainShown /\ inspectionDialogOpen
  /\ IF Trim(rawId) = <<>>
     THEN /\ UNCHANGED <<view, activeProjectId, inspectionDialogOpen>>
          /\ last' = Outcome("proceedInspection", "rejected", <<rawId>>)
     ELSE /\ activeProjectId' = Trim(rawId)
          /\ view' = "inspectionProject"
          /\ inspectionDialogOpen' = FALSE
          /\ last' = NoOutcome
  /\ Rerender /\ UNCHANGED <<tz, callVars, now, authVars, filterDate, dataDialogOpen, reportDialogOpen,
                 projectVars, inspectionVars, ops>>

\* The "Full Timeline" (date = EmptyDate is ignored) and "By Date" buttons of
\* the report dialog.
OpenReport(rawId, byDate, date) ==
  /\ MainShown /\ reportDialogOpen
  /\ IF Trim(rawId) = <<>> \/ (byDate /\ date = EmptyDate)
     THEN /\ UNCHANGED <<view, activeProjectId, filterDate, reportDialogOpen>>
          /\ last' = Outcome("openReport", "rejected", <<rawId, date>>)
     ELSE /\ activeProjectId' = Trim(rawId)
          /\ filterDate' = IF byDate THEN date ELSE EmptyDate
          /\ reportDialogOpen' = FALSE
          /\ view' = "inspectionProject"
          /\ last' = NoOutcome
  /\ Rerender /\ UNCHANGED <<tz, callVars, now, authVars, dataDialogOpen, inspectionDialogOpen,
                 projectVars, inspectionVars, ops>>

\* The Clear button of the filter banner.
ClearFilter ==
  /\ PageShown /\ view = "inspectionProject" /\ filterDate # EmptyDate
  /\ filterDate' = EmptyDate
  /\ last' = NoOutcome
  /\ Rerender /\ UNCHANGED <<tz, callVars, now, authVars, view, activeProjectId, dialogVars, projectVars,
                 inspectionVars, ops>>

(***************************************************************************)
(* Data (projects).                                                        *)
(***************************************************************************)
\* A variant that stamps createdAt anew on every save.
UpsertProjectFresh(map, id, address, scope, t) ==
  Put(map, id, [id |-> id, address |-> address, scope |-> scope,
                createdAt |-> t, updatedAt |-> t])

\* The record saveProject stores for id.
UpsertProject(map, id, address, scope, t) ==
  Put(map, id, [id |-> id, address |-> address, scope |-> scope,
                createdAt |-> IF id \in DOMAIN map THEN map[id].createdAt ELSE t,
                updatedAt |-> t])

SaveProject(rawId, rawAddress, rawScope) ==
  /\ MainShown /\ dataDialogOpen
  /\ IF Trim(rawId) = <<>>
     THEN /\ UNCHANGED <<projects, lsProjects, dataDialogOpen, view, ops>>
          /\ last' = Outcome("saveProject", "rejected", <<rawId, rawAddress, rawScope>>)
     ELSE /\ ops' = ops + 1
          /\ projects' = UpsertProject(projects, Trim(rawId), Trim(rawAddress),
                                       Trim(rawScope), now)
          \* useEffect(() => saveProjects(projects), [projects])
          /\ lsProjects' = saveProjects(projects')
          /\ dataDialogOpen' = FALSE
          /\ view' = "home"
          /\ last' = Outcome("saveProject", "ok", <<rawId, rawAddress, rawScope>>)
  /\ Rerender /\ UNCHANGED <<tz, callVars, now, authVars, activeProjectId, filterDate, inspectionDialogOpen,
                 reportDialogOpen, inspectionVars>>

(***************************************************************************)
(* Inspection.                                                             *)
(***************************************************************************)
\* A variant that resolves without the put having been stored.
IdbSetNotStored(store, key, value, outcome) == store

\* idbSet: the put is stored when the transaction completes; on an error
\* the promise rejects; an abort without an error event settles nothing.
IdbOutcomes == {"complete", "error", "abort"}

IdbSet(store, key, value, outcome) ==
  IF outcome = "complete" THEN Put(store, key, value) ELSE store

\* The keys pushed to photoKeys after n completed writes.
PhotoKeysOf(projectId, entryId, n) == [k \in 1..n |-> PhotoKey(projectId, entryId, k - 1)]

\* notesRef.current?.value?.trim() || "": the text area exists while the
\* inspection form is rendered.
NotesRead(rawNotes) ==
  IF MainShown /\ view = "inspectionProject" THEN Trim(rawNotes) ELSE <<>>

\* The entry built after the photo loop of call t. seq and files are history:
\* the number of the call and the files it was submitted with.
EntryOf(t, notes, clock) ==
  [id |-> t.entryId, date |-> t.date, time |-> t.time, notes |-> notes,
   photoKeys |-> PhotoKeysOf(t.pid, t.entryId, Len(t.photos)),
   createdAt |-> clock, updatedAt |-> clock, seq |-> t.seq, files |-> t.photos]

\* const next = { ...inspections }; next[id] = [...(next[id] || []), entry].sort(...)
AppendAndSort(zone, snap, projectId, entry) ==
  Put(snap, projectId, SortEntries(zone, Append(ListOf(snap, projectId), entry)))

NewCall(date, time, photos) ==
  [seq |-> Len(calls) + 1, pid |-> activeProjectId, date |-> date, time |-> time,
   photos |-> photos, snap |-> inspections, entryId |-> now, written |-> 0]

\* A variant that validates the date only.
EntryRejectedDateOnly(date, time) == date = EmptyDate

\* if (!entryDate || !entryTime) return toast.error("Enter date and time.");
EntryRejected(date, time) == date = EmptyDate \/ time = EmptyTime

\* saveInspectionEntry up to its first await, or to its end when no photo
\* is attached.
SaveInspectionEntry(date, time, photos, rawNotes) ==
  /\ PageShown /\ view = "inspectionProject"
  /\ IF activeProjectId = Null
     THEN /\ UNCHANGED <<inspections, lsInspections, saves, calls, ops>>
          /\ last' = NoOutcome
     ELSE IF EntryRejected(date, time)
     THEN /\ UNCHANGED <<inspections, lsInspections, saves, calls, ops>>
          /\ last' = Outcome("saveInspectionEntry", "rejected", <<date, time>>)
     ELSE /\ ops' = ops + 1
          /\ last' = NoOutcome
          /\ IF photos = <<>> /\ Inherits(inspections, activeProjectId)
             \* [...(next[activeProjectId] || []), entry] is not iterable
             THEN /\ calls' = Append(calls, "failed")
                  /\ UNCHANGED <<inspections, lsInspections, saves>>
             ELSE IF photos = <<>>
             THEN /\ inspections' = AppendAndSort(tz, inspections, activeProjectId,
                                       EntryOf(NewCall(date, time, photos),
                                               NotesRead(rawNotes), now))
                  \* useEffect(() => saveInspections(inspections), [inspections])
                  /\ lsInspections' = saveInspections(inspections')
                  /\ calls' = Append(calls, "saved")
                  /\ saves' = saves
             ELSE /\ saves' = Append(saves, NewCall(date, time, photos))
                  /\ calls' = Append(calls, "pending")
                  /\ UNCHANGED <<inspections, lsInspections>>
  /\ Rerender /\ UNCHANGED <<tz, callVars, now, authVars, navVars, dialogVars, projectVars, blobs>>

\* A variant that goes on with the loop when a write fails.
AfterWriteIgnoringErrors(outcome, written, total) ==
  IF outcome = "abort" THEN "wait"
  ELSE IF written + 1 < total THEN "next" ELSE "record"

\* What a call does when the idbSet it awaits settles, with `written` photos
\* stored before and `total` attached: the loop goes on to the next photo,
\* the entry is recorded, the rejection is thrown out of the call, or (no
\* event handled) the call waits forever.
AfterWrite(outcome, written, total) ==
  CASE outcome = "complete" /\ written + 1 < total -> "next"
    [] outcome = "complete" /\ written + 1 >= total -> "record"
    [] outcome = "error" -> "throw"
    [] outcome = "abort" -> "wait"

\* History: a call whose write failed stays "failed" ("hung" when the write
\* never settled) whatever the call does next; a call that ends on an
\* unmounted application is "dropped".
Fate(old, outcome, step) ==
  CASE outcome = "error" -> "failed"
    [] outcome = "abort" -> "hung"
    [] step = "drop" -> "dropped"
    [] step = "throw" -> "failed"
    [] OTHER -> IF step = "record" /\ old = "pending" THEN "saved" ELSE old

\* The idbSet awaited by call saves[i] settles, and the call runs on to its
\* next await or to its end.
PhotoWrite(i, outcome, rawNotes) ==
  LET t == saves[i]
      key == PhotoKey(t.pid, t.entryId, t.written)
      after == AfterWrite(outcome, t.written, Len(t.photos))
      \* [...(next[activeProjectId] || []), entry] is not iterable;
      \* setInspections does nothing once the application is unmounted
      step == CASE after = "record" /\ Inherits(t.snap, t.pid) -> "throw"
                [] after = "record" /\ RenderThrows -> "drop"
                [] OTHER -> after
  IN /\ blobs' = IdbSet(blobs, key, t.photos[t.written + 1], outcome)
     /\ calls' = [calls EXCEPT ![t.seq] = Fate(@, outcome, step)]
     /\ CASE step = "next" ->
               /\ saves' = [saves EXCEPT ![i].written = t.written + 1]
               /\ UNCHANGED <<inspections, lsInspections>>
          [] step = "record" ->
               /\ inspections' = AppendAndSort(tz, t.snap, t.pid,
                                    EntryOf(t, NotesRead(rawNotes), now))
               \* useEffect(() => saveInspections(inspections), [inspections])
               /\ lsInspections' = saveInspections(inspections')
               /\ saves' = RemoveAt(saves, i)
          [] step \in {"throw", "wait", "drop"} ->
               /\ saves' = RemoveAt(saves, i)
               /\ UNCHANGED <<inspections, lsInspections>>
     /\ last' = NoOutcome
     /\ Rerender /\ UNCHANGED <<tz, callVars, now, authVars, navVars, dialogVars, projectVars, ops>>

(***************************************************************************)
(* Photo resolver.                                                         *)
(***************************************************************************)
\* The value of idbGet for a key without a blob.
Undefined == "undefined"

\* idbGet: the request's result at onsuccess.
IdbGet(store, key) == IF key \in DOMAIN store THEN store[key] ELSE Undefined

\* idbGet settles with the request's result or rejects with its error.
IdbGetOutcomes == {"success", "error"}

\* URL.createObjectURL: the n-th object URL created in the process.
ObjectURL(n) == <<"blob:", n>>

\* A variant that records the empty handle of a missing blob in the cache.
CacheAfterReadAlways(cache, key, blob, url) ==
  Put(cache, key, IF blob = Undefined THEN NoHandle ELSE url)

\* photoURLFromKey after its await: if (!blob) return ""; otherwise
\* photoURLCache.set(key, url).
CacheAfterRead(cache, key, blob, url) ==
  IF blob = Undefined THEN cache ELSE Put(cache, key, url)

\* The keys of the photos the inspection page shows: one AsyncImage, and one
\* photoURLFromKey call when it is mounted, for every key of every entry of
\* the list.
DisplayedKeys ==
  IF MainShown /\ view = "inspectionProject"
  THEN LET list == InspectionList(inspections, activeProjectId, filterDate)
       IN UNION {{list[k].photoKeys[i] : i \in DOMAIN list[k].photoKeys} : k \in DOMAIN list}
  ELSE {}

\* The instances after instance n has called setUrl(u): while (active).
SetUrl(mounted, n, u) ==
  IF n \in DOMAIN mounted THEN [mounted EXCEPT ![n].url = u] ELSE mounted

\* An AsyncImage is mounted for a displayed key and its effect calls
\* photoURLFromKey, which runs up to its await, or to its end on a cache hit
\* (the instance then shows the cached handle). The result reported is
\* <<key, handle returned>>.
ResolveCall(key) ==
  /\ key \in DisplayedKeys
  /\ \A n \in DOMAIN images : images[n].idKey # key
  /\ mounts' = mounts + 1
  /\ IF key \in DOMAIN photoURLCache
     THEN /\ resolves' = resolves
          /\ images' = [n \in DOMAIN images \cup {mounts'} |->
                          IF n = mounts' THEN [idKey |-> key, url |-> photoURLCache[key]]
                          ELSE images[n]]
          /\ last' = Outcome("resolve", "ok", <<key, photoURLCache[key]>>)
     ELSE /\ resolves' = Append(resolves, [key |-> key, image |-> mounts'])
          /\ images' = [n \in DOMAIN images \cup {mounts'} |->
                          IF n = mounts' THEN [idKey |-> key, url |-> NoHandle]
                          ELSE images[n]]
          /\ last' = Outcome("resolve", "pending", <<key, NoHandle>>)
  /\ UNCHANGED <<tz, now, authVars, navVars, dialogVars, projectVars, inspectionVars,
                 ops, photoURLCache, urls, handed, made, revoked>>

\* The idbGet awaited by call resolves[i] settles, and the call runs to its
\* end; the instance that made the call shows the handle if it is still
\* mounted.
ResolveDone(i, outcome) ==
  LET key == resolves[i].key
      blob == IdbGet(blobs, key)
  IN /\ resolves' = RemoveAt(resolves, i)
     /\ IF outcome = "error"
        THEN /\ UNCHANGED <<photoURLCache, urls, handed, made, images>>
             /\ last' = Outcome("resolve", "failed", <<key, NoHandle>>)
        ELSE /\ urls' = IF blob = Undefined THEN urls ELSE urls + 1
             /\ made' = IF blob = Undefined THEN made ELSE Append(made, key)
             /\ handed' = IF blob = Undefined \/ key \in DOMAIN handed THEN handed
                           ELSE Put(handed, key, ObjectURL(urls'))
             /\ photoURLCache' = CacheAfterRead(photoURLCache, key, blob, ObjectURL(urls'))
             /\ images' = SetUrl(images, resolves[i].image,
                                 IF blob = Undefined THEN NoHandle ELSE ObjectURL(urls'))
             /\ last' = Outcome("resolve", "ok",
                                <<key, IF blob = Undefined THEN NoHandle ELSE ObjectURL(urls')>>)
     /\ UNCHANGED <<tz, now, authVars, navVars, dialogVars, projectVars, inspectionVars,
                    ops, mounts, revoked>>

\* A field of the entry form is edited (setEntryDate, setEntryTime,
\* setEntryPhotos): App renders again. The result reported is the set of
\* handles the unmounted instances showed.
FormEdited ==
  /\ PageShown /\ view = "inspectionProject"
  /\ images # <<>>
  /\ Rerender
  /\ last' = Outcome("render", "ok", <<{images[n].url : n \in DOMAIN images} \ {NoHandle}>>)
  /\ UNCHANGED <<tz, callVars, now, authVars, navVars, dialogVars, projectVars,
                 inspectionVars, ops>>

\* The browser discards the origin's IndexedDB database (storage eviction,
\* "clear site data" for databases); openDB creates it anew, empty.
StoreEvicted ==
  /\ blobs # <<>>
  /\ blobs' = <<>>
  /\ last' = NoOutcome
  /\ UNCHANGED <<tz, resolverVars, now, authVars, navVars, dialogVars, projectVars,
                 inspections, lsInspections, saves, calls, ops>>

(***************************************************************************)
(* Process start.                                                          *)
(***************************************************************************)
\* History: the calls the end of the process cuts off.
Killed(fates) == [s \in DOMAIN fates |-> IF fates[s] = "pending" THEN "killed" ELSE fates[s]]

\* A variant that takes the session over from the process before.
RestartKeepingSession ==
  /\ hasPasscode' = (storedHash # NoHash)
  /\ projects' = loadProjects(lsProjects)
  /\ inspections' = loadInspections(lsInspections)
  /\ lsProjects' = saveProjects(projects')
  /\ lsInspections' = saveInspections(inspections')
  /\ authTasks' = <<>> /\ saves' = <<>> /\ calls' = Killed(calls)
  /\ photoURLCache' = <<>> /\ resolves' = <<>> /\ urls' = 0 /\ handed' = <<>>
  /\ images' = <<>> /\ mounts' = 0 /\ made' = <<>> /\ revoked' = {}
  /\ last' = Outcome("restart", "ok", <<>>)
  /\ UNCHANGED <<tz, now, storedHash, blobs, ops, authed, navVars, dialogVars>>

\* The process ends (the page is closed or reloaded) and starts again: the
\* state after the first render and its effects. Every useState starts from
\* its initial value, the collections are loaded from localStorage and the
\* persist effects store what was loaded; the calls in flight are gone.
Restart ==
  /\ view' = "auth"
  /\ authed' = FALSE
  /\ hasPasscode' = (storedHash # NoHash)
  /\ projects' = loadProjects(lsProjects)
  /\ inspections' = loadInspections(lsInspections)
  /\ lsProjects' = saveProjects(projects')
  /\ lsInspections' = saveInspections(inspections')
  /\ activeProjectId' = Null
  /\ filterDate' = EmptyDate
  /\ dataDialogOpen' = FALSE /\ inspectionDialogOpen' = FALSE /\ reportDialogOpen' = FALSE
  /\ authTasks' = <<>> /\ saves' = <<>> /\ calls' = Killed(calls)
  /\ photoURLCache' = <<>> /\ resolves' = <<>> /\ urls' = 0 /\ handed' = <<>>
  /\ images' = <<>> /\ mounts' = 0 /\ made' = <<>> /\ revoked' = {}
  /\ last' = Outcome("restart", "ok", <<>>)
  /\ UNCHANGED <<tz, now, storedHash, blobs, ops>>

\* What another script of the origin, the developer tools or the browser can
\* leave under a key of localStorage: nothing, a text that is not JSON, the
\* JSON text null.
Payloads == {NoItem, Unparsable, NullText}

\* localStorage is written from outside the application.
StorageWritten(key, payload) ==
  /\ CASE key = "projects" -> lsProjects' = payload /\ UNCHANGED lsInspections
       [] key = "inspections" -> lsInspections' = payload /\ UNCHANGED lsProjects
  /\ lsProjects' # lsProjects \/ lsInspections' # lsInspections
  /\ last' = NoOutcome
  /\ UNCHANGED <<tz, resolverVars, now, authVars, navVars, dialogVars, projects,
                 inspections, blobs, saves, calls, ops>>

(***************************************************************************)
(* Specification.                                                          *)
(***************************************************************************)
\* Every specification below is made of the same actions; it chooses the
\* inputs and stops starting operations when its bound is reached.
SetPasscodeStep(codes, limit) ==
  \/ /\ Len(authTasks) < limit
     /\ \E input \in codes, confirm \in codes : HandleSetPasscode(input, confirm)
  \/ \E i \in DOMAIN authTasks : SetPasscodeDone(i)

SignInStep(codes, limit) ==
  \/ /\ Len(authTasks) < limit
     /\ \E input \in codes : HandleSignIn(input)
  \/ \E i \in DOMAIN authTasks : SignInDone(i)
  \/ HandleSignOut

InspectionNav(ids) ==
  \/ GoHome
  \/ OpenInspectionPrompt
  \/ \E rawId \in ids : ProceedInspection(rawId)

ReportNav(ids) ==
  \/ OpenReportPrompt
  \/ \E rawId \in ids, byDate \in BOOLEAN, date \in Dates \cup {EmptyDate} :
       OpenReport(rawId, byDate, date)
  \/ ClearFilter

ProjectStep(ids, limit) ==
  \/ OpenDataPrompt
  \/ /\ ops < limit
     /\ \E rawId \in ids, rawAddress \in RawTexts, rawScope \in RawTexts :
          SaveProject(rawId, rawAddress, rawScope)
  \/ \E id \in DOMAIN projects : OpenRecent(id)

SubmitStep(dates, times, photoLists, limit) ==
  /\ ops < limit
  /\ \E date \in dates, time \in times, photos \in photoLists, rawNotes \in RawNotes :
       SaveInspectionEntry(date, time, photos, rawNotes)

PhotoStep ==
  \E i \in DOMAIN saves, outcome \in IdbOutcomes, rawNotes \in RawNotes :
    PhotoWrite(i, outcome, rawNotes)

ResolveStep(limit) ==
  \/ /\ mounts < limit
     /\ \E key \in DisplayedKeys : ResolveCall(key)
  \/ \E i \in DOMAIN resolves, outcome \in IdbGetOutcomes : ResolveDone(i, outcome)
  \/ FormEdited

\* Projects and inspections behind the gate. The passcode is typed correctly
\* and one passcode handler runs at a time (SpecGate lifts both
\* restrictions); the report dialog is left to SpecReport.
Next ==
  \/ Tick
  \/ SetPasscodeStep({"abcd"}, 1)
  \/ SignInStep({"abcd"}, 1)
  \/ InspectionNav(RawIds)
  \/ ProjectStep(RawIds, MaxOps)
  \/ SubmitStep(Dates \cup {EmptyDate}, Times \cup {EmptyTime}, PhotoLists, MaxOps)
  \/ PhotoStep

Spec == Init /\ [][Next]_vars

\* The passcode gate with every passcode input and overlapping passcode
\* handlers, and the navigation; no data is stored.
NextGate ==
  \/ SetPasscodeStep(Passcodes, MaxAuthTasks)
  \/ SignInStep(Passcodes, MaxAuthTasks)
  \/ InspectionNav(RawIds)
  \/ ReportNav(RawIds)
  \/ OpenDataPrompt
  \/ \E which \in {"data", "inspection", "report"} : CloseDialog(which)

SpecGate == Init /\ [][NextGate]_vars

\* The timeline of one project: up to MaxInserts submissions on the day of
\* the daylight-saving gap.
NextTimeline ==
  \/ Tick
  \/ SetPasscodeStep({"abcd"}, 1)
  \/ InspectionNav({<<"p">>})
  \/ SubmitStep({GapDay}, Times, PhotoLists, MaxInserts)
  \/ PhotoStep

SpecTimeline == Init /\ [][NextTimeline]_vars

\* The report: up to MaxInserts entries without photos, and the timeline
\* opened in full or by date.
NextReport ==
  \/ SetPasscodeStep({"abcd"}, 1)
  \/ InspectionNav(RawIds)
  \/ ReportNav(RawIds)
  \/ SubmitStep(Dates, Times, {<<>>}, MaxInserts)

SpecReport == Init /\ [][NextReport]_vars

\* The photos of two projects: up to MaxOps submissions on one date and time,
\* with every selection of files.
NextPhotos ==
  \/ Tick
  \/ SetPasscodeStep({"abcd"}, 1)
  \/ InspectionNav({<<"p">>, <<" ", "q", " ">>})
  \/ SubmitStep({GapDay}, {GapEnd}, AllPhotoLists, MaxOps)
  \/ PhotoStep

SpecPhotos == Init /\ [][NextPhotos]_vars

\* The photo resolver: submissions with one photo to one project, the photos
\* of the page resolved up to MaxResolves times, and the blob store discarded
\* by the browser.
NextResolver ==
  \/ Tick
  \/ SetPasscodeStep({"abcd"}, 1)
  \/ InspectionNav({<<"p">>})
  \/ SubmitStep({GapDay}, {GapEnd}, {<<File(1)>>}, MaxOps)
  \/ \E i \in DOMAIN saves, rawNotes \in RawNotes : PhotoWrite(i, "complete", rawNotes)
  \/ ResolveStep(MaxResolves)
  \/ StoreEvicted

SpecResolver == Init /\ [][NextResolver]_vars

\* Process starts: projects and entries (without photos) are stored, the
\* passcode is set and typed, and the process is restarted at any moment.
NextRestart ==
  \/ Tick
  \/ SetPasscodeStep({"abcd"}, 1)
  \/ SignInStep({"abcd", "wxyz"}, 1)
  \/ InspectionNav(RawIds)
  \/ ProjectStep(RawIds, MaxOps)
  \/ SubmitStep(Dates, {GapEnd}, {<<>>}, MaxOps)
  \/ Restart

SpecRestart == Init /\ [][NextRestart]_vars

\* Process starts on every stored payload: as SpecRestart, and localStorage
\* is also written from outside the application.
NextLoad ==
  \/ NextRestart
  \/ \E key \in {"projects", "inspections"}, payload \in Payloads :
       StorageWritten(key, payload)

SpecLoad == Init /\ [][NextLoad]_vars

(***************************************************************************)
(* Properties.                                                             *)
(***************************************************************************)
ProjectIds == {Trim(raw) : raw \in RawIds} \ {<<>>}

\* Call number s has an entry in some project's list of map.
Listed(map, s) ==
  \E pid \in DOMAIN map : \E k \in DOMAIN map[pid] : map[pid][k].seq = s

\* The entries of all lists of map.
EntriesOf(map) == UNION {{map[pid][k] : k \in DOMAIN map[pid]} : pid \in DOMAIN map}

\* C1: all-or-nothing entry creation. A saveInspectionEntry call one of
\* whose blob writes failed (or never settled) has no entry in any project's
\* list, in the state and in localStorage, and the step in which the write
\* fails leaves the Inspections collection as it was.
C1_AllOrNothing ==
  [][/\ \A s \in DOMAIN calls' :
          calls'[s] \in {"failed", "hung"} =>
            ~Listed(inspections', s) /\ ~Listed(loadInspections(lsInspections'), s)
     /\ (\E s \in DOMAIN calls : calls[s] = "pending" /\ calls'[s] \in {"failed", "hung"})
          => inspections' = inspections /\ lsInspections' = lsInspections]_vars

\* A call failed at its second write: its first blob stays behind, and the
\* collection holds an entry of another call.
C1_Witness ==
  \E s \in DOMAIN calls :
    /\ calls[s] = "failed"
    /\ \E key \in DOMAIN blobs : \A e \in EntriesOf(inspections) :
         \A k \in DOMAIN e.photoKeys : e.photoKeys[k] # key
    /\ EntriesOf(inspections) # {}

\* C2: no dangling photo keys. Every key in the photoKeys of every listed
\* entry has a blob in the object store.
C2_NoDanglingKeys ==
  \A e \in EntriesOf(inspections) :
    \A k \in DOMAIN e.photoKeys : e.photoKeys[k] \in DOMAIN blobs

C2_Witness ==
  \E e \in EntriesOf(inspections) : Len(e.photoKeys) = MaxPhotos

\* C3 as claimed: an entry recorded in a project's list is in that project's
\* list, with the same fields, in every later state.
C3_EntriesNeverLost ==
  [][\A pid \in DOMAIN inspections : \A k \in DOMAIN inspections[pid] :
       /\ pid \in DOMAIN inspections'
       /\ \E j \in DOMAIN inspections'[pid] : inspections'[pid][j] = inspections[pid][k]]_vars

\* (date, time) of a is not older than that of b.
NotOlder(a, b) == a.date > b.date \/ (a.date = b.date /\ a.time >= b.time)

\* C4 as claimed: every project's list is sorted by (date, time), newest
\* first.
C4_SortedByDateTime ==
  \A pid \in DOMAIN inspections :
    \A i \in DOMAIN inspections[pid], j \in DOMAIN inspections[pid] :
      i < j => NotOlder(inspections[pid][i], inspections[pid][j])

\* C5: stable tie-break. Of two entries of a project with the same (date,
\* time), the one submitted earlier comes first in the list.
C5_StableTieBreak ==
  \A pid \in DOMAIN inspections :
    \A i \in DOMAIN inspections[pid], j \in DOMAIN inspections[pid] :
      (/\ i < j
       /\ inspections[pid][i].date = inspections[pid][j].date
       /\ inspections[pid][i].time = inspections[pid][j].time)
        => inspections[pid][i].seq < inspections[pid][j].seq

\* Two entries with the same (date, time) and a third one submitted after
\* both: the list that held the pair was sorted again.
C5_Witness ==
  \E pid \in DOMAIN inspections :
    \E i \in DOMAIN inspections[pid], j \in DOMAIN inspections[pid],
       k \in DOMAIN inspections[pid] :
      /\ i < j
      /\ inspections[pid][i].date = inspections[pid][j].date
      /\ inspections[pid][i].time = inspections[pid][j].time
      /\ inspections[pid][k].seq > inspections[pid][j].seq
      /\ inspections[pid][k].time # inspections[pid][j].time

\* The positions of the entries of list dated d, and the n-th of them.
Matching(list, d) == {i \in DOMAIN list : list[i].date = d}
NthOf(set, n) == CHOOSE i \in set : Cardinality({j \in set : j < i}) = n - 1

\* C6 as claimed: date-filtered timeline. For every project id (also one
\* without a list, and the empty id rendered for no active project) and
\* every filter date d, the query ends without an error, the filtered list
\* is a list, and it holds exactly the entries of the full timeline dated d,
\* in the order of the full timeline.
C6_FilteredTimeline ==
  \A pid \in ProjectIds \cup {Null}, d \in Dates :
    LET full == InspectionList(inspections, pid, EmptyDate)
        got == InspectionList(inspections, pid, d)
    IN /\ ~InspectionListThrows(inspections, pid)
       /\ DOMAIN got = 1..Len(got)
       /\ Len(got) = Cardinality(Matching(full, d))
       /\ \A n \in DOMAIN got : got[n] = full[NthOf(Matching(full, d), n)]

\* A step that is an accepted saveProject for an id already stored.
IsUpsert ==
  /\ last'.op = "saveProject" /\ last'.result = "ok"
  /\ Trim(last'.arg[1]) \in DOMAIN projects

\* What C7 says of such a step apart from updatedAt: the collection does not
\* grow, createdAt is kept, address and scope are the (trimmed) new ones.
UpsertInPlace ==
  LET id == Trim(last'.arg[1])
  IN /\ Cardinality(DOMAIN projects') <= Cardinality(DOMAIN projects)
     /\ projects'[id].id = id
     /\ projects'[id].createdAt = projects[id].createdAt
     /\ projects'[id].address = Trim(last'.arg[2])
     /\ projects'[id].scope = Trim(last'.arg[3])

\* C7 as claimed: ... and updatedAt becomes a value different from the one
\* stored before.
C7_UpdatedAtDiffers ==
  [][IsUpsert =>
       /\ UpsertInPlace
       /\ projects'[Trim(last'.arg[1])].updatedAt # projects[Trim(last'.arg[1])].updatedAt]_vars

\* C7 as amended: a second saveProject with an id already stored does not
\* increase the number of projects, keeps createdAt, replaces address and
\* scope, and sets updatedAt to the clock reading of that save.
C7_Upsert ==
  [][IsUpsert =>
       /\ UpsertInPlace
       /\ projects'[Trim(last'.arg[1])].updatedAt = now]_vars

\* A project was saved again after the clock had moved on.
C7_Witness ==
  /\ last.op = "saveProject" /\ last.result = "ok"
  /\ Trim(last.arg[1]) \in DOMAIN projects
  /\ projects[Trim(last.arg[1])].updatedAt > projects[Trim(last.arg[1])].createdAt

\* The state of the access gate.
Gate ==
  IF authed THEN "Unlocked" ELSE IF storedHash # NoHash THEN "Locked" ELSE "NoCredential"

SetPasscodeSucceeded == last'.op = "setPasscode" /\ last'.result = "ok"
SignInSucceeded == last'.op = "signIn" /\ last'.result = "ok"
SignedOut == last'.op = "signOut"

\* C8 as claimed: the gate moves only NoCredential -> Locked on a successful
\* setCredential, Locked -> Unlocked on a successful verify and Unlocked ->
\* Locked on signOut, and it is Locked right after a successful setCredential.
C8_SetCredentialLocks ==
  [][/\ Gate' # Gate =>
          \/ Gate = "NoCredential" /\ Gate' = "Locked" /\ SetPasscodeSucceeded
          \/ Gate = "Locked" /\ Gate' = "Unlocked" /\ SignInSucceeded
          \/ Gate = "Unlocked" /\ Gate' = "Locked" /\ SignedOut
     /\ SetPasscodeSucceeded => Gate' = "Locked"]_vars

\* C8 as amended: the gate moves only to Unlocked on a successful
\* setCredential (from NoCredential, or from Locked when the call ends after
\* a sign-out), Locked -> Unlocked on a successful verify and Unlocked ->
\* Locked on signOut, and it is Unlocked right after a successful
\* setCredential.
C8_GateTransitions ==
  [][/\ Gate' # Gate =>
          \/ Gate \in {"NoCredential", "Locked"} /\ Gate' = "Unlocked" /\ SetPasscodeSucceeded
          \/ Gate = "Locked" /\ Gate' = "Unlocked" /\ SignInSucceeded
          \/ Gate = "Unlocked" /\ Gate' = "Locked" /\ SignedOut
     /\ SetPasscodeSucceeded => Gate' = "Unlocked"]_vars

\* The first passcode has just been set.
C8_Witness ==
  /\ last.op = "setPasscode" /\ last.result = "ok"
  /\ Gate = "Unlocked" /\ view = "home"

\* C9: passcode verification. A sign-in compares against the hash that is
\* stored when it is called (arg[2]); it succeeds if and only if that hash is
\* the digest of a passcode and the passcode typed (arg[1]) is that very
\* passcode, and then the gate is Unlocked; a sign-in that does not succeed
\* leaves authed and the stored hash as they were, so a Locked gate stays
\* Locked. The hash stored by a successful setCredential(p) is the digest of p.
C9_Verify ==
  [][/\ (last'.op = "signIn" /\ last'.result \in {"pending", "rejected"})
          => last'.arg[2] = storedHash
     /\ (last'.op = "signIn" /\ last'.result # "pending") =>
          /\ last'.result = "ok" <=>
               \E p \in Passcodes : last'.arg[2] = sha256Base64(p) /\ last'.arg[1] = p
          /\ last'.result = "ok" => Gate' = "Unlocked"
          /\ last'.result # "ok" =>
               /\ authed' = authed /\ storedHash' = storedHash
               /\ Gate = "Locked" => Gate' = "Locked"
     /\ SetPasscodeSucceeded => storedHash' = sha256Base64(last'.arg[1])]_vars

\* A sign-in with the passcode that was set has just unlocked the gate.
C9_Witness ==
  /\ last.op = "signIn" /\ last.result = "ok"
  /\ storedHash = sha256Base64(last.arg[1])
  /\ Gate = "Unlocked"

\* C10: setCredential rejection. A setCredential call is rejected if and
\* only if its passcode has fewer than 4 characters or its confirmation
\* differs; a rejected call leaves the stored hash, hasPasscode and authed as
\* they were and starts no digest.
C10_SetPasscodeRejected ==
  [][(last'.op = "setPasscode" /\ last'.result \in {"rejected", "pending"}) =>
       /\ last'.result = "rejected" <=>
            (Len(last'.arg[1]) < 4 \/ last'.arg[2] # last'.arg[1])
       /\ last'.result = "rejected" =>
            /\ storedHash' = storedHash /\ hasPasscode' = hasPasscode
            /\ authed' = authed /\ authTasks' = authTasks
            /\ Gate' # "Unlocked"]_vars

\* A passcode of three characters, confirmed, has just been rejected.
C10_Witness ==
  /\ last.op = "setPasscode" /\ last.result = "rejected"
  /\ Len(last.arg[1]) = 3 /\ last.arg[2] = last.arg[1]
  /\ storedHash = NoHash /\ ~hasPasscode

\* C12: validation before I/O. A saveInspectionEntry call is rejected exactly
\* when its date or its time is empty (no call in flight and no listed entry
\* has an empty date or time), and the rejected call writes no blob, starts
\* no write and leaves the Inspections collection and its stored document as
\* they were; a saveProject call is rejected exactly when its id is empty
\* after trimming (no project is stored under the empty id), and the rejected
\* call leaves the Projects collection and its stored document as they were.
C12_ValidationBeforeIO ==
  [][/\ (last'.op = "saveInspectionEntry" /\ last'.result = "rejected") =>
          /\ last'.arg[1] = EmptyDate \/ last'.arg[2] = EmptyTime
          /\ blobs' = blobs /\ saves' = saves /\ calls' = calls
          /\ inspections' = inspections /\ lsInspections' = lsInspections
     /\ \A i \in DOMAIN saves' : saves'[i].date # EmptyDate /\ saves'[i].time # EmptyTime
     /\ \A e \in EntriesOf(inspections') : e.date # EmptyDate /\ e.time # EmptyTime
     /\ (last'.op = "saveProject" /\ last'.result = "rejected") =>
          /\ Trim(last'.arg[1]) = <<>>
          /\ projects' = projects /\ lsProjects' = lsProjects
     /\ (last'.op = "saveProject" /\ last'.result = "ok") => Trim(last'.arg[1]) # <<>>
     /\ <<>> \notin DOMAIN projects' /\ <<>> \notin DOMAIN loadProjects(lsProjects')]_vars

\* A submission with a date and no time has just been rejected, while blobs,
\* an entry and a project are stored.
C12_Witness ==
  /\ last.op = "saveInspectionEntry" /\ last.result = "rejected"
  /\ last.arg[1] # EmptyDate /\ last.arg[2] = EmptyTime
  /\ blobs # <<>> /\ EntriesOf(inspections) # {}

\* C20 as claimed: every saveInspectionEntry call ends with one result,
\* success or an explicit failure, whatever the outcome of its blob writes;
\* no call is left awaiting a promise that never settles.
C20_EveryCallTerminates ==
  \A s \in DOMAIN calls : calls[s] # "hung"

\* The entries of all lists of map, each with its project id.
PlacedEntries(map) ==
  UNION {{<<pid, map[pid][k]>> : k \in DOMAIN map[pid]} : pid \in DOMAIN map}

\* C13 as claimed: photo keys are globally unique. No key occurs twice over
\* the photoKeys of all listed entries: not in two entries, not twice in one.
C13_KeysGloballyUnique ==
  \A a \in PlacedEntries(inspections), b \in PlacedEntries(inspections) :
    \A i \in DOMAIN a[2].photoKeys, j \in DOMAIN b[2].photoKeys :
      (a # b \/ i # j) => a[2].photoKeys[i] # b[2].photoKeys[j]

\* C14 as claimed: an entry submitted with N files is listed with N keys,
\* the i-th being projectId/inspections/entryId/photo-i, the keys of an entry
\* differ, and the blob stored under the i-th key of every listed entry is
\* the i-th file submitted with that entry.
C14_KeysResolveToFiles ==
  \A a \in PlacedEntries(inspections) :
    LET pid == a[1]
        e == a[2]
    IN /\ Len(e.photoKeys) = Len(e.files)
       /\ \A i \in DOMAIN e.photoKeys :
            /\ e.photoKeys[i] = PhotoKey(pid, e.id, i - 1)
            /\ \A j \in DOMAIN e.photoKeys : i # j => e.photoKeys[i] # e.photoKeys[j]
            /\ e.photoKeys[i] \in DOMAIN blobs
            /\ blobs[e.photoKeys[i]] = e.files[i]

\* A photoURLFromKey call begins in this step (and on a cache hit also ends).
ResolveBegins == last'.op = "resolve" /\ Len(resolves') >= Len(resolves)

\* A photoURLFromKey call returns from its blob read in this step.
ResolveReturnsFromRead ==
  last'.op = "resolve" /\ last'.result = "ok" /\ Len(resolves') < Len(resolves)

\* C18 as claimed: once photoURLFromKey has returned an object URL for a
\* key, every call that begins later returns that same URL, reads no blob
\* and creates no URL.
C18_CacheHit ==
  [][\A key \in DOMAIN handed :
       (ResolveBegins /\ last'.arg[1] = key) =>
         /\ last'.result = "ok" /\ last'.arg[2] = handed[key]
         /\ resolves' = resolves /\ urls' = urls]_vars

\* C19: resolve of a missing blob. A call whose blob read finds no blob under
\* its key returns the empty handle and leaves the cache (and the number of
\* URLs created) as it was; the empty handle is never in the cache; a call
\* whose read finds a blob returns a new object URL and records it.
C19_MissingBlob ==
  [][/\ ResolveReturnsFromRead =>
          IF last'.arg[1] \in DOMAIN blobs
          THEN /\ last'.arg[2] # NoHandle
               /\ photoURLCache' = Put(photoURLCache, last'.arg[1], last'.arg[2])
          ELSE /\ last'.arg[2] = NoHandle
               /\ photoURLCache' = photoURLCache /\ urls' = urls
     /\ \A key \in DOMAIN photoURLCache' : photoURLCache'[key] # NoHandle]_vars

\* A call has just returned the empty handle for a key whose blob is gone,
\* while the URL of another key is in the cache.
C19_Witness ==
  /\ last.op = "resolve" /\ last.result = "ok" /\ last.arg[2] = NoHandle
  /\ last.arg[1] \notin DOMAIN blobs
  /\ last.arg[1] \notin DOMAIN photoURLCache
  /\ photoURLCache # <<>>

\* A step that is a process start.
Restarted == last'.op = "restart"

\* C11: the first state of the first process run shows the auth view; every
\* process start, whatever the gate and the credential before it, ends with
\* the gate not Unlocked and the auth view shown; and the auth view is left
\* only by a step on which a passcode set or a sign-in of this run succeeds.
C11_UnlockedNotPersisted ==
  /\ AuthShown /\ Gate # "Unlocked"
  /\ [][/\ Restarted => (Gate' # "Unlocked" /\ AuthShown')
        /\ (AuthShown /\ ~AuthShown') => (SetPasscodeSucceeded \/ SignInSucceeded)]_vars

\* A process start with a stored credential and stored projects: the gate
\* was Unlocked in an earlier run, and the new run is Locked on the auth view.
C11_Witness ==
  /\ last.op = "restart"
  /\ storedHash # NoHash
  /\ projects # <<>> /\ IsMapping(projects)
  /\ Gate = "Locked" /\ AuthShown

\* C15: load never fails. On every process start, whatever localStorage
\* holds under the two keys, the loaded Projects and Inspections are
\* mappings, and they are the empty mapping when the stored payload is
\* absent or is not JSON.
C15_LoadNeverFails ==
  [][Restarted =>
       /\ IsMapping(projects') /\ IsMapping(inspections')
       /\ lsProjects \in {NoItem, Unparsable} => projects' = <<>>
       /\ lsInspections \in {NoItem, Unparsable} => inspections' = <<>>]_vars

\* The state before the step is the one an accepted saveProject left.
JustSaved == last.op = "saveProject" /\ last.result = "ok"

\* C16: persistence round trip. A process start that follows a completed
\* saveProject(id, address, scope) loads a ProjectMeta for the (trimmed) id
\* with the id, address, scope and updatedAt of that save; and every record
\* held in memory before a process start is loaded identical in every field.
C16_RoundTrip ==
  [][Restarted =>
       /\ \A id \in DOMAIN projects :
            id \in DOMAIN projects' /\ projects'[id] = projects[id]
       /\ JustSaved =>
            LET id == Trim(last.arg[1])
            IN /\ id \in DOMAIN projects'
               /\ projects'[id].id = id
               /\ projects'[id].address = Trim(last.arg[2])
               /\ projects'[id].scope = Trim(last.arg[3])
               /\ projects'[id].updatedAt = now]_vars

\* The calls a step records, and the project a call was made for: the
\* active project when the call started.
Recorded == {s \in DOMAIN calls' : calls'[s] = "saved" /\ (s \in DOMAIN calls => calls[s] # "saved")}
ProjectOf(s) ==
  IF \E i \in DOMAIN saves : saves[i].seq = s
  THEN saves[CHOOSE i \in DOMAIN saves : saves[i].seq = s].pid
  ELSE activeProjectId

\* C17: no referential integrity. The inspection page of a project id that
\* has no ProjectMeta renders its timeline without an error, and a step that
\* records a call made for such an id lists the entry under that id and
\* leaves the Projects collection and its stored document as they were.
C17_NoReferentialIntegrity ==
  [][/\ (view' = "inspectionProject" /\ activeProjectId' \notin DOMAIN projects')
          => ~InspectionListThrows(inspections', activeProjectId')
     /\ \A s \in Recorded :
          ProjectOf(s) \notin DOMAIN projects =>
            /\ ProjectOf(s) \in DOMAIN inspections'
            /\ \E k \in DOMAIN inspections'[ProjectOf(s)] :
                 inspections'[ProjectOf(s)][k].seq = s
            /\ projects' = projects /\ lsProjects' = lsProjects]_vars

\* The handles in the resolver cache.
Cached(cache) == {cache[key] : key \in DOMAIN cache}

\* C21: handle release respects the cache. The cleanup of an AsyncImage
\* releases no handle that the cache holds after the step; every handle in
\* the cache is live; and a photoURLFromKey call never returns a revoked
\* handle.
C21_ReleaseRespectsCache ==
  /\ [](Cached(photoURLCache) \cap revoked = {})
  /\ [][/\ (revoked' \ revoked) \cap Cached(photoURLCache') = {}
        /\ (last'.op = "resolve" /\ last'.result = "ok") => last'.arg[2] \notin revoked']_vars

\* AsyncImage instances that showed a cached handle have just been unmounted,
\* and the handle is still in the cache, not revoked.
C21_Witness ==
  /\ last.op = "render"
  /\ last.arg[1] \cap Cached(photoURLCache) # {}
  /\ last.arg[1] \cap revoked = {}
  /\ images = <<>>

\* C22: one handle per key. In a process no two object URLs are created for
\* the same photo key, whatever the number of photoURLFromKey calls on the
\* key and however they overlap, and every object URL that is not revoked is
\* the one the cache holds for its key.
C22_OneHandlePerKey ==
  /\ \A n, m \in DOMAIN made : made[n] = made[m] => n = m
  /\ \A n \in DOMAIN made :
       ObjectURL(n) \notin revoked =>
         made[n] \in DOMAIN photoURLCache /\ photoURLCache[made[n]] = ObjectURL(n)

\* C23: gate view invariant. Whenever the session is not authenticated the
\* current view is the auth view, so the auth screen is what is rendered;
\* also while passcode calls, photo writes and dialogs are pending.
C23_GateView == ~authed => (view = "auth" /\ AuthShown)

\* The user has signed out from the inspection page of a project while a
\* saveInspectionEntry call awaits a photo write.
C23_Witness ==
  /\ last.op = "signOut"
  /\ ~authed /\ view = "auth"
  /\ activeProjectId # Null
  /\ saves # <<>>

\* C24: stored data changes only while unlocked. A step that changes the
\* Projects collection, the Inspections collection, their stored documents
\* or the object store starts and ends in a state whose gate is Unlocked.
C24_ChangesOnlyUnlocked ==
  [][(\/ projects' # projects \/ lsProjects' # lsProjects
      \/ inspections' # inspections \/ lsInspections' # lsInspections
      \/ blobs' # blobs)
       => (Gate = "Unlocked" /\ Gate' = "Unlocked")]_vars

\* C25: re-verification after sign-out. A step that takes the gate from
\* Locked to Unlocked is the end of a handleSignIn call that began after the
\* latest sign-out and whose passcode has the stored digest; no passcode call
\* that was in flight at a sign-out unlocks the gate.
C25_ReverifyAfterSignOut ==
  [][(Gate = "Locked" /\ Gate' = "Unlocked") =>
       \E i \in DOMAIN authTasks :
         /\ authTasks' = RemoveAt(authTasks, i)
         /\ authTasks[i].kind = "signIn"
         /\ ~authTasks[i].old
         /\ sha256Base64(authTasks[i].input) = storedHash]_vars
====
